---- MODULE Spec2Model ----
(***************************************************************************)
(* money-manager: the aggregation and classification pipeline.             *)
(*                                                                         *)
(* src/src/main.rs is the binary: parse_report_and_draw_images reads every *)
(* worksheet of a workbook (read_worksheet: header resolution, then a fold *)
(* of the rows into a ledger), selects the trailing window of periods,     *)
(* materializes one series per category and draws two charts per sheet.    *)
(* src/src/money_manager.rs is the library rewrite of the same pipeline    *)
(* (parse_report, draw); its definitions carry the prefix lib_ here.       *)
(*                                                                         *)
(* Conventions of the model                                                *)
(*  - A String that is only compared for equality is a TLA+ string.  The   *)
(*    Cyrillic literals of the source are transliterated (ASCII only).     *)
(*  - A Period (the String built by format!) is the sequence of its ASCII  *)
(*    codes, so that the byte-wise order of BTreeSet/BTreeMap is modelled. *)
(*  - An f64 amount of a workbook is an integer: every amount of the      *)
(*    workbook alphabet is a small whole number, for which f64 addition is *)
(*    exact.  mean and median are compared through cross-multiplied        *)
(*    integers.  The fold specification (SpecFold) carries amounts as      *)
(*    binary64 values, with the rounding of their addition.                *)
(*  - Rust sequences are 0-based; the model's are 1-based, and a column    *)
(*    position keeps its 0-based value.                                    *)
(***************************************************************************)
EXTENDS Integers, Sequences, FiniteSets, TLC

VARIABLES
    workbook,     \* input: the worksheets (name, rows) of the opened file
    group,        \* input: the --group-by argument
    pc,           \* position of parse_report_and_draw_images
    ws,           \* 1-based index of the worksheet the for loop is at
    read,         \* value returned by the last read_worksheet call
    image_data,   \* ImageData of the current worksheet
    result,       \* Vec<Result<PathBuf, String>> of draw_image results
    ret,          \* value returned to the caller
    attempts,     \* history: outcome of read_worksheet per attempted sheet
    lib_pc,       \* position of money_manager::parse_report
    lib_ws,       \* index of the worksheet parse_report's iterator is at
    lib_data,     \* ledgers collected so far by parse_report
    lib_ret,      \* value returned by parse_report
    lib_periods,  \* periods of money_manager::draw: the window of its plots
    lib_shown,    \* plots shown so far by money_manager::draw
    date,         \* input of the period specification: a calendar date
    key,          \* period keys derived from date
    later,        \* input of the order specification: a date not before date
    later_key,    \* period keys derived from later
    universe,     \* input of the window specification: sorted periods
    size,         \* input of the window specification: n
    window,       \* result of last_n_groups(universe, size)
    transactions, \* input of the fold specification: normalized transactions
    order,        \* input of the fold specification: a permutation of them
    folded        \* ledgers folded from transactions, as given and permuted

vars == <<workbook, group, pc, ws, read, image_data, result, ret, attempts,
          lib_pc, lib_ws, lib_data, lib_ret, lib_periods, lib_shown,
          date, key, later, later_key,
          universe, size, window,
          transactions, order, folded>>

mainVars == <<workbook, group, pc, ws, read, image_data, result, ret, attempts>>
libVars == <<lib_pc, lib_ws, lib_data, lib_ret, lib_periods, lib_shown>>
periodVars == <<date, key, later, later_key>>
windowVars == <<universe, size, window>>
foldVars == <<transactions, order, folded>>

(***************************************************************************)
(* Bounds of the model.                                                    *)
(***************************************************************************)
MaxRows == 3      \* data rows of a worksheet of the row family
MaxCols == 5      \* width of a header row of the header family
MaxSheets == 3    \* worksheets of a workbook of the run family
MaxMonths == 5    \* months of a worksheet of the chart family
MaxUniverse == 5  \* periods of a universe given to last_n_groups
MaxSize == 3      \* window size given to last_n_groups
MaxTx == 3        \* normalized transactions given to the fold

MAX_PERIODS == 12

(***************************************************************************)
(* Generic helpers.                                                        *)
(***************************************************************************)
Range(s) == {s[i] : i \in 1..Len(s)}

SetMax(S) == CHOOSE x \in S : \A y \in S : y <= x

RECURSIVE SeqsUpTo(_, _)
\* all sequences over S of length 0..n
SeqsUpTo(S, n) ==
    IF n = 0 THEN {<<>>}
    ELSE LET shorter == SeqsUpTo(S, n - 1)
         IN  shorter \cup {Append(s, x) : s \in {t \in shorter : Len(t) = n - 1}, x \in S}

Put(f, k, v) == [x \in (DOMAIN f) \cup {k} |-> IF x = k THEN v ELSE f[x]]

RECURSIVE SumSeq(_)
SumSeq(s) == IF s = <<>> THEN 0 ELSE s[1] + SumSeq(Tail(s))

\* byte-wise order of two Strings given as code sequences (str::cmp)
LexLess(a, b) ==
    \/ /\ Len(a) < Len(b)
       /\ \A i \in 1..Len(a) : a[i] = b[i]
    \/ \E i \in 1..Len(a) :
          /\ i <= Len(b)
          /\ a[i] < b[i]
          /\ \A j \in 1..(i - 1) : a[j] = b[j]

LexLeq(a, b) == a = b \/ LexLess(a, b)

RECURSIVE SortPeriods(_)
\* ascending iteration of a BTreeSet<Period> / the keys of a BTreeMap
SortPeriods(S) ==
    IF S = {} THEN <<>>
    ELSE LET m == CHOOSE x \in S : \A y \in S : LexLeq(x, y)
         IN  <<m>> \o SortPeriods(S \ {m})

(***************************************************************************)
(* Option<T>.                                                              *)
(***************************************************************************)
None == [some |-> FALSE, v |-> 0]
Some(x) == [some |-> TRUE, v |-> x]

(***************************************************************************)
(* calamine::DataType cells.                                               *)
(***************************************************************************)
Str(s) == [t |-> "String", s |-> s, f |-> 0]
Flt(f) == [t |-> "Float", s |-> "", f |-> f]
Empty == [t |-> "Empty", s |-> "", f |-> 0]

(***************************************************************************)
(* chrono::NaiveDate and the "%d.%m.%Y" parser.                            *)
(***************************************************************************)
IsLeap(y) == (y % 4 = 0 /\ y % 100 # 0) \/ y % 400 = 0

DaysInMonth(y, m) ==
    IF m \in {4, 6, 9, 11} THEN 30
    ELSE IF m = 2 THEN (IF IsLeap(y) THEN 29 ELSE 28)
    ELSE 31

ValidDate(d) ==
    /\ d.month \in 1..12
    /\ d.day \in 1..DaysInMonth(d.year, d.month)

\* The date-shaped strings of the input alphabet and the day, month and year
\* each spells; any other string does not match the pattern.
MonthStarts == <<"01.01.2023", "01.02.2023", "01.03.2023", "01.04.2023",
                 "01.05.2023", "01.06.2023", "01.07.2023", "01.08.2023",
                 "01.09.2023", "01.10.2023", "01.11.2023", "01.12.2023">>

DateText(s) ==
    IF \E m \in 1..Len(MonthStarts) : s = MonthStarts[m]
    THEN Some([day |-> 1, year |-> 2023,
               month |-> CHOOSE m \in 1..Len(MonthStarts) : s = MonthStarts[m]])
    ELSE CASE s = "15.01.2023" -> Some([day |-> 15, month |-> 1, year |-> 2023])
           [] s = "31.03.2023" -> Some([day |-> 31, month |-> 3, year |-> 2023])
           [] s = "31.02.2023" -> Some([day |-> 31, month |-> 2, year |-> 2023])
           [] OTHER -> None

\* NaiveDate::parse_from_str(s, "%d.%m.%Y"): Ok only for a real calendar date
parse_from_str(s) ==
    LET t == DateText(s)
    IN  IF t.some /\ ValidDate(t.v) THEN t ELSE None

(***************************************************************************)
(* Period Key Derivation: format! of year and month.                       *)
(***************************************************************************)
RECURSIVE Digits(_)
Digits(n) == IF n < 10 THEN <<48 + n>> ELSE Digits(n \div 10) \o <<48 + (n % 10)>>

RECURSIVE ZeroPad(_, _)
ZeroPad(s, w) == IF Len(s) >= w THEN s ELSE ZeroPad(<<48>> \o s, w)

FmtInt_unpadded(n, w) == IF n < 0 THEN <<45>> \o Digits(0 - n) ELSE Digits(n)

\* "{:0w}" of an integer: sign first, then zeros up to the width
FmtInt(n, w) ==
    IF n < 0 THEN <<45>> \o ZeroPad(Digits(0 - n), w - 1)
    ELSE ZeroPad(Digits(n), w)

by_month(d) == FmtInt(d.year, 4) \o <<45>> \o FmtInt(d.month, 2)

by_quarter(d) == FmtInt(d.year, 4) \o <<45, 113>> \o FmtInt((d.month \div 3) + 1, 0)

by_year(d) == FmtInt(d.year, 4)

Groups == {"month", "quarter", "year"}

\* the match on the group argument plus period_from_date
period_from_date(g, d) ==
    CASE g = "year" -> by_year(d)
      [] g = "quarter" -> by_quarter(d)
      [] OTHER -> by_month(d)

lib_by_month(d) == FmtInt(d.year, 4) \o <<45>> \o FmtInt(d.month, 2)

lib_by_quarter(d) ==
    FmtInt(d.year, 4) \o <<45, 113>> \o FmtInt(((d.month - 1) \div 3) + 1, 0)

lib_by_year(d) == FmtInt(d.year, 4)

lib_period_from_date(g, d) ==
    CASE g = "year" -> lib_by_year(d)
      [] g = "quarter" -> lib_by_quarter(d)
      [] OTHER -> lib_by_month(d)

(***************************************************************************)
(* Row Normalizer: read_row.                                               *)
(***************************************************************************)
income == "Dohod"
outcome == "Rashod"

NoDate == [day |-> 0, month |-> 0, year |-> 0]
NoFields == [period |-> NoDate, category |-> "", tx_type |-> "", value |-> 0]

RowOk(f) == [tag |-> "Ok", err |-> "", fields |-> f]
RowErr(e) == [tag |-> "Err", err |-> e, fields |-> NoFields]
RowPanic == [tag |-> "Panic", err |-> "unwrap on None", fields |-> NoFields]

\* row[columns.x]
CellAt(row, pos) == row[pos + 1]

read_row(columns, row) ==
    LET pcell == CellAt(row, columns.period)
        ccell == CellAt(row, columns.category)
        tcell == CellAt(row, columns.tx_type)
        vcell == CellAt(row, columns.value)
        period == IF pcell.t = "String" THEN parse_from_str(pcell.s) ELSE None
        category == IF ccell.t = "String" THEN Some(ccell.s) ELSE None
        tx_type == IF tcell.t = "String" /\ tcell.s = income THEN Some("Income")
                   ELSE IF tcell.t = "String" /\ tcell.s = outcome THEN Some("Outcome")
                   ELSE None
        value == IF vcell.t = "Float" THEN Some(vcell.f) ELSE None
    IN  IF ~period.some THEN RowErr("period")
        ELSE IF ~category.some THEN RowErr("category")
        ELSE IF tcell.t = "String" /\ ~tx_type.some THEN RowErr("tx_type")
        ELSE IF ~value.some THEN RowErr("value")
        ELSE IF ~tx_type.some THEN RowPanic
        ELSE RowOk([period |-> period.v, category |-> category.v,
                    tx_type |-> tx_type.v, value |-> value.v])

(***************************************************************************)
(* read_worksheet: header resolution.                                      *)
(***************************************************************************)
period_str == "Period"
category_str == "Kategoriya"
tx_type_str == "Dohod/Rashod"
value_str == "RUB"

\* The for loop over 0..first_row.len() - 1: the last matching index wins.
HeaderPos(first_row, label) ==
    LET hits == {i \in 0..(Len(first_row) - 2) : CellAt(first_row, i) = Str(label)}
    IN  IF hits = {} THEN None ELSE Some(SetMax(hits))

NoErr == [kind |-> "", column |-> "", sheet |-> ""]
NoFirstRow(name) == [kind |-> "Can't read first row", column |-> "", sheet |-> name]
NoColumn(label, name) == [kind |-> "Can't find column", column |-> label, sheet |-> name]

NoColumns == [period |-> 0, category |-> 0, tx_type |-> 0, value |-> 0]

\* Ok(columns) or the Err that read_worksheet returns before the fold
ResolveColumns(name, rows) ==
    IF rows = <<>> THEN [ok |-> FALSE, err |-> NoFirstRow(name), columns |-> NoColumns]
    ELSE LET period_pos == HeaderPos(rows[1], period_str)
             category_pos == HeaderPos(rows[1], category_str)
             tx_type_pos == HeaderPos(rows[1], tx_type_str)
             value_pos == HeaderPos(rows[1], value_str)
             fail(label) == [ok |-> FALSE, err |-> NoColumn(label, name),
                             columns |-> NoColumns]
         IN  IF ~period_pos.some THEN fail(period_str)
             ELSE IF ~category_pos.some THEN fail(category_str)
             ELSE IF ~tx_type_pos.some THEN fail(tx_type_str)
             ELSE IF ~value_pos.some THEN fail(value_str)
             ELSE [ok |-> TRUE, err |-> NoErr,
                   columns |-> [period |-> period_pos.v, category |-> category_pos.v,
                                tx_type |-> tx_type_pos.v, value |-> value_pos.v]]

(***************************************************************************)
(* read_worksheet: the Ledger Builder fold.                                *)
(***************************************************************************)
EmptyLedger == <<>>

addition_unsigned(fields) == fields.value

addition(fields) ==
    IF fields.tx_type = "Outcome" THEN fields.value ELSE 0 - fields.value

\* *by_category.entry(category).or_insert(BTreeMap::new())
\*             .entry(period).or_insert(0.0) += addition
Accumulate(by_category, category, period, add) ==
    LET inner == IF category \in DOMAIN by_category THEN by_category[category]
                 ELSE EmptyLedger
        old == IF period \in DOMAIN inner THEN inner[period] ELSE 0
    IN  Put(by_category, category, Put(inner, period, old + add))

\* the body of "for row in range.rows()" of main.rs for one row
FoldRow(acc, columns, row, g) ==
    LET r == read_row(columns, row)
    IN  IF r.tag = "Panic" THEN [acc EXCEPT !.panicked = TRUE]
        ELSE IF r.tag = "Err" THEN acc
        ELSE LET period == period_from_date(g, r.fields.period)
             IN  [acc EXCEPT
                    !.periods = @ \cup {period},
                    !.by_category = Accumulate(@, r.fields.category, period,
                                               addition(r.fields))]

RECURSIVE FoldRows(_, _, _, _, _)
FoldRows(acc, columns, rows, g, i) ==
    IF i > Len(rows) \/ acc.panicked THEN acc
    ELSE FoldRows(FoldRow(acc, columns, rows[i], g), columns, rows, g, i + 1)

FoldInit == [by_category |-> EmptyLedger, periods |-> {}, panicked |-> FALSE]

NoRead == [tag |-> "None", err |-> NoErr, data |-> EmptyLedger, periods |-> <<>>]

read_worksheet(name, rows, g) ==
    LET cols == ResolveColumns(name, rows)
    IN  IF ~cols.ok THEN [NoRead EXCEPT !.tag = "Err", !.err = cols.err]
        ELSE LET acc == FoldRows(FoldInit, cols.columns, rows, g, 1)
             IN  IF acc.panicked THEN [NoRead EXCEPT !.tag = "Panic"]
                 ELSE [tag |-> "Ok", err |-> NoErr, data |-> acc.by_category,
                       periods |-> SortPeriods(acc.periods)]

(***************************************************************************)
(* f64: IEEE 754 binary64 values and their addition, as "+=" computes it.  *)
(* A finite value is its sign and the set of the exponents of the one bits *)
(* of its magnitude (0.75 = 2^-1 + 2^-2 has bits {-1, -2}); it is a        *)
(* binary64 value when its bits span at most 53 positions.  The exponent   *)
(* range (overflow, subnormals) is not modelled: the amounts of the        *)
(* alphabet and their sums are far inside it.                              *)
(***************************************************************************)
f64_zero == [neg |-> FALSE, bits |-> {}]

f64_neg(x) == IF x.bits = {} THEN x ELSE [x EXCEPT !.neg = ~@]

RECURSIVE BitAdd(_, _)
\* the magnitude a + b: the sum without carries, plus the carries
BitAdd(a, b) ==
    IF b = {} THEN a
    ELSE BitAdd((a \cup b) \ (a \cap b), {i + 1 : i \in a \cap b})

RECURSIVE BitSub(_, _)
\* the magnitude a - b for a >= b: the difference without borrows, minus
\* the borrows
BitSub(a, b) ==
    IF b = {} THEN a
    ELSE BitSub((a \cup b) \ (a \cap b), {i + 1 : i \in b \ a})

\* magnitude a < magnitude b: the highest bit they differ in is a bit of b
BitLess(a, b) ==
    LET differ == (a \cup b) \ (a \cap b)
    IN  differ # {} /\ SetMax(differ) \in b

\* round to nearest, ties to even, to 53 significant bits
RoundNearestEven(m) ==
    IF m = {} THEN m
    ELSE LET lsb == SetMax(m) - 52
             kept == {i \in m : i >= lsb}
             half == (lsb - 1) \in m
             sticky == \E i \in m : i < lsb - 1
         IN  IF half /\ (sticky \/ lsb \in m) THEN BitAdd(kept, {lsb}) ELSE kept

\* x + y of two f64: the exact sum, rounded once
f64_add(x, y) ==
    IF x.neg = y.neg
    THEN [neg |-> x.neg, bits |-> RoundNearestEven(BitAdd(x.bits, y.bits))]
    ELSE IF x.bits = y.bits THEN f64_zero
    ELSE IF BitLess(x.bits, y.bits)
         THEN [neg |-> y.neg, bits |-> RoundNearestEven(BitSub(y.bits, x.bits))]
         ELSE [neg |-> x.neg, bits |-> RoundNearestEven(BitSub(x.bits, y.bits))]

\* Float(f) of a whole number 0 <= n < 2^31
f64_of_int(n) == [neg |-> FALSE, bits |-> {i \in 0..30 : (n \div (2 ^ i)) % 2 = 1}]

\* the binary64 values nearest to 0.1 and 0.2
f64_0_1 == [neg |-> FALSE, bits |-> {0 - i : i \in {4, 5, 8, 9, 12, 13, 16, 17, 20, 21,
                                                  24, 25, 28, 29, 32, 33, 36, 37, 40, 41,
                                                  44, 45, 48, 49, 52, 53, 55}}]
f64_0_2 == [neg |-> FALSE, bits |-> {i + 1 : i \in f64_0_1.bits}]

(***************************************************************************)
(* The Ledger Builder fold on f64 amounts: the loop of read_worksheet over *)
(* the rows read_row returns Ok(fields) for.                               *)
(***************************************************************************)
f64_addition(fields) ==
    IF fields.tx_type = "Outcome" THEN fields.value ELSE f64_neg(fields.value)

f64_Accumulate_overwrite(by_category, category, period, add) ==
    LET inner == IF category \in DOMAIN by_category THEN by_category[category]
                 ELSE EmptyLedger
    IN  Put(by_category, category, Put(inner, period, add))

\* *by_category.entry(category).or_insert(BTreeMap::new())
\*             .entry(period).or_insert(0.0) += addition
f64_Accumulate(by_category, category, period, add) ==
    LET inner == IF category \in DOMAIN by_category THEN by_category[category]
                 ELSE EmptyLedger
        old == IF period \in DOMAIN inner THEN inner[period] ELSE f64_zero
    IN  Put(by_category, category, Put(inner, period, f64_add(old, add)))

RECURSIVE FoldFields(_, _, _, _)
\* main.rs: the for loop over the normalized transactions txs from the i-th
FoldFields(by_category, txs, g, i) ==
    IF i > Len(txs) THEN by_category
    ELSE FoldFields(f64_Accumulate(by_category, txs[i].category,
                                   period_from_date(g, txs[i].period),
                                   f64_addition(txs[i])),
                    txs, g, i + 1)

RECURSIVE lib_FoldFields(_, _, _, _)
\* money_manager.rs: the same loop, with its period keys
lib_FoldFields(by_category, txs, g, i) ==
    IF i > Len(txs) THEN by_category
    ELSE lib_FoldFields(f64_Accumulate(by_category, txs[i].category,
                                       lib_period_from_date(g, txs[i].period),
                                       f64_addition(txs[i])),
                        txs, g, i + 1)

(***************************************************************************)
(* Window Selector: last_n_groups.                                         *)
(***************************************************************************)
Rev(s) == [i \in 1..Len(s) |-> s[Len(s) + 1 - i]]
Take(s, k) == SubSeq(s, 1, IF k < Len(s) THEN k ELSE Len(s))
Skip(s, k) == SubSeq(s, (IF k < Len(s) THEN k ELSE Len(s)) + 1, Len(s))

last_n_groups_no_skip(periods, n) == Rev(Take(Rev(periods), n))

last_n_groups(periods, n) == Rev(Skip(Take(Rev(periods), n + 1), 1))

(***************************************************************************)
(* Series Materializer: worksheet_data_to_image_data.                      *)
(***************************************************************************)
\* The categories of the input alphabet in byte order: the order in which a
\* BTreeMap<Category, _> iterates.
CategoryOrder == <<"Food", "Rent">>

SortedCategories(worksheet_data) ==
    LET present(c) == c \in DOMAIN worksheet_data
    IN  SelectSeq(CategoryOrder, present)

y_values_present_only(by_period, periods) ==
    LET present(p) == p \in DOMAIN by_period
        kept == SelectSeq(periods, present)
    IN  [i \in 1..Len(kept) |-> by_period[kept[i]]]

\* periods.iter().map(|period| match by_period.get(period) {..}).collect()
y_values(by_period, periods) ==
    [i \in 1..Len(periods) |->
        IF periods[i] \in DOMAIN by_period THEN by_period[periods[i]] ELSE 0]

worksheet_data_to_image_data(worksheet_data, periods) ==
    LET cats == SortedCategories(worksheet_data)
    IN  [x_values |-> periods,
         charts |-> [i \in 1..Len(cats) |->
                        [name |-> cats[i],
                         y_values |-> y_values(worksheet_data[cats[i]], periods),
                         line |-> "Solid"]]]

(***************************************************************************)
(* Classifier: statistical::{mean, median} and the two filters.            *)
(***************************************************************************)
InsertSorted(s, x) ==
    LET le(e) == e <= x
        gt(e) == e > x
    IN  SelectSeq(s, le) \o <<x>> \o SelectSeq(s, gt)

RECURSIVE SortInts(_)
SortInts(v) == IF v = <<>> THEN <<>> ELSE InsertSorted(SortInts(Tail(v)), v[1])

\* twice statistical::median(v) for a non-empty v: the middle element, or the
\* mean of the two middle elements, of the sorted values
median_x2(v) ==
    LET scratch == SortInts(v)
        mid == Len(v) \div 2
    IN  IF Len(v) % 2 = 1 THEN 2 * scratch[mid + 1]
        ELSE scratch[mid + 1] + scratch[mid]

\* median(v) asserts v.len() > 0
MedianPanics(v) == Len(v) = 0

\* |cd| median(&cd.y_values) > 0.0
all_spendings_pred(v) == median_x2(v) > 0

regular_spendings_pred_one_sided(v) ==
    /\ median_x2(v) > 0
    /\ SumSeq(v) < Len(v) * median_x2(v)

\* (median > 0.0) && (mean < 2.0 * median) && (median < 2.0 * mean), with
\* mean = sum / len and median = median_x2 / 2, multiplied out by 2 * len
regular_spendings_pred(v) ==
    /\ median_x2(v) > 0
    /\ SumSeq(v) < Len(v) * median_x2(v)
    /\ Len(v) * median_x2(v) < 4 * SumSeq(v)

filter_all_spendings(data) ==
    LET keep(cd) == all_spendings_pred(cd.y_values)
    IN  SelectSeq(data, keep)

filter_regular_spendings(data) ==
    LET keep(cd) == regular_spendings_pred(cd.y_values)
    IN  SelectSeq(data, keep)

\* either filter evaluates median on every chart of data
FilterPanics(data) == \E i \in 1..Len(data) : MedianPanics(data[i].y_values)

Variants == {"Regulyarnye traty", "Vse traty"}

\* the filter argument of draw_image, by the title it is passed with
Filter(title, data) ==
    IF title = "Regulyarnye traty" THEN filter_regular_spendings(data)
    ELSE filter_all_spendings(data)

(***************************************************************************)
(* add_total and draw_image.                                               *)
(***************************************************************************)
RECURSIVE SumAt(_, _)
\* sum over the charts of y_values[i]
SumAt(charts, i) ==
    IF charts = <<>> THEN 0 ELSE charts[1].y_values[i] + SumAt(Tail(charts), i)

add_total_skip_first(data) ==
    [data EXCEPT !.charts =
        Append(@, [name |-> "Vsego",
                   y_values |-> [i \in 1..Len(data.x_values) |->
                                 SumAt(IF @ = <<>> THEN @ ELSE Tail(@), i)],
                   line |-> "LongDashDot"])]

add_total(data) ==
    [data EXCEPT !.charts =
        Append(@, [name |-> "Vsego",
                   y_values |-> [i \in 1..Len(data.x_values) |-> SumAt(@, i)],
                   line |-> "LongDashDot"])]

\* The plot that draw_image saves: the filtered charts plus the total.  The
\* file name is random and the rendering external; the entry of result is
\* modelled by the plot written at that path, with the sheet it belongs to.
draw_image(data, title, sheet) ==
    LET filtered == add_total([x_values |-> data.x_values,
                               charts |-> Filter(title, data.charts)])
    IN  [ok |-> TRUE, sheet |-> sheet, title |-> title,
         x_values |-> filtered.x_values, charts |-> filtered.charts, err |-> NoErr]

(***************************************************************************)
(* The input alphabet: rows, headers, worksheets and workbooks.            *)
(***************************************************************************)
LRow(d, c, t, v) == [date |-> d, category |-> c, tx_type |-> t, value |-> v]

Row1 == LRow(Str("01.01.2023"), Str("Food"), Str(outcome), Flt(300))
Row2 == LRow(Str("15.01.2023"), Str("Food"), Str(outcome), Flt(100))
Row3 == LRow(Str("01.02.2023"), Str("Food"), Str(income), Flt(50))
Row4 == LRow(Str("31.03.2023"), Str("Rent"), Str(outcome), Flt(100))

BadDate == LRow(Str("31.02.2023"), Str("Food"), Str(outcome), Flt(100))
BadCategory == LRow(Str("01.01.2023"), Empty, Str(outcome), Flt(100))
BadLabel == LRow(Str("01.01.2023"), Str("Food"), Str("Perevod"), Flt(100))
BadTypeCell == LRow(Str("01.01.2023"), Str("Food"), Empty, Flt(100))
BadValue == LRow(Str("01.01.2023"), Str("Food"), Str(outcome), Str("n/a"))

ValidRows == {Row1, Row2, Row3, Row4}
BadRows == {BadDate, BadCategory, BadLabel, BadTypeCell, BadValue}
DataRows == ValidRows \cup BadRows

HeaderLabels == {period_str, category_str, tx_type_str, value_str}
HeaderCells == {Str(l) : l \in HeaderLabels} \cup {Str("Kommentariy")}

GoodHeader == <<Str(period_str), Str(category_str), Str(tx_type_str),
                Str(value_str), Str("Kommentariy")>>
NoValueHeader == <<Str(period_str), Str(category_str), Str(tx_type_str),
                   Str("USD"), Str("Kommentariy")>>

\* the cells of a data row under the columns a header names
LayRow(header, lr) ==
    [i \in 1..Len(header) |->
        CASE header[i] = Str(period_str) -> lr.date
          [] header[i] = Str(category_str) -> lr.category
          [] header[i] = Str(tx_type_str) -> lr.tx_type
          [] header[i] = Str(value_str) -> lr.value
          [] OTHER -> Empty]

Sheet(name, header, lrows) ==
    [name |-> name,
     rows |-> <<header>> \o [i \in 1..Len(lrows) |-> LayRow(header, lrows[i])]]

NoRowsSheet(name) == [name |-> name, rows |-> <<>>]

SheetNames == <<"Sheet1", "Sheet2", "Sheet3", "Sheet4", "Sheet5">>

\* Row family: one worksheet with any rows of the alphabet under a header
\* that resolves.
RowSheets == {Sheet(SheetNames[1], GoodHeader, lrs) : lrs \in SeqsUpTo(DataRows, MaxRows)}

\* Header family: one worksheet with any header row and one valid data row.
HeaderSheets ==
    {Sheet(SheetNames[1], h, <<Row1>>) : h \in SeqsUpTo(HeaderCells, MaxCols) \ {<<>>}}

\* Chart family: one worksheet with at most one transaction of Food per month
\* (absent, or one of three signed amounts) and a constant Rent in no, the
\* first, the last or every month.
FoodAmounts == {0 - 12000, 1000, 12000}
RentPatterns == {"none", "first", "last", "all"}

AmountRow(m, category, amount) ==
    LRow(Str(MonthStarts[m]), Str(category),
         Str(IF amount < 0 THEN income ELSE outcome),
         Flt(IF amount < 0 THEN 0 - amount ELSE amount))

RECURSIVE ChartRows(_, _, _)
ChartRows(food, rent, m) ==
    IF m > MaxMonths THEN <<>>
    ELSE (IF food[m] = 0 THEN <<>> ELSE <<AmountRow(m, "Food", food[m])>>)
         \o (IF \/ rent = "all"
                \/ rent = "first" /\ m = 1
                \/ rent = "last" /\ m = MaxMonths
             THEN <<AmountRow(m, "Rent", 50)>> ELSE <<>>)
         \o ChartRows(food, rent, m + 1)

ChartSheets ==
    {Sheet(SheetNames[1], GoodHeader, ChartRows(food, rent, 1)) :
        food \in [1..MaxMonths -> FoodAmounts \cup {0}], rent \in RentPatterns}

\* Run family: workbooks of several worksheets, each of one of these kinds.
SheetKinds(name) ==
    {Sheet(name, GoodHeader, <<Row1, Row3>>),
     Sheet(name, GoodHeader, <<Row1, Row2, Row3, Row4>>),
     Sheet(name, GoodHeader, <<>>),
     Sheet(name, GoodHeader, <<Row1>>),
     Sheet(name, GoodHeader, <<Row1, Row3, BadTypeCell>>),
     Sheet(name, NoValueHeader, <<Row1, Row3>>),
     NoRowsSheet(name)}

RECURSIVE BooksOf(_)
\* the workbooks of n worksheets
BooksOf(n) ==
    IF n = 0 THEN {<<>>}
    ELSE {Append(wb, sh) : wb \in BooksOf(n - 1), sh \in SheetKinds(SheetNames[n])}

RunBooks == UNION {BooksOf(n) : n \in 0..MaxSheets}

Workbooks == {<<s>> : s \in RowSheets \cup HeaderSheets \cup ChartSheets} \cup RunBooks

(***************************************************************************)
(* parse_report_and_draw_images (main.rs).                                 *)
(***************************************************************************)
NoImage == [x_values |-> <<>>, charts |-> <<>>]
NoRet == [tag |-> "None", paths |-> <<>>, message |-> <<>>]
OpenErr == [kind |-> "XlsxError", column |-> "", sheet |-> ""]

MainInit ==
    /\ pc = "open"
    /\ ws = 1
    /\ read = NoRead
    /\ image_data = NoImage
    /\ result = <<>>
    /\ ret = NoRet
    /\ attempts = <<>>

\* open_workbook(file): Err ends the run, Ok enters the worksheet loop
OpenWorkbook ==
    /\ pc = "open"
    /\ \E opened \in BOOLEAN :
          IF opened
          THEN /\ pc' = "read"
               /\ ret' = ret
          ELSE /\ pc' = "done"
               /\ ret' = [tag |-> "Err", paths |-> <<>>, message |-> <<OpenErr>>]
    /\ UNCHANGED <<workbook, group, ws, read, image_data, result, attempts>>
    /\ UNCHANGED <<libVars, periodVars, windowVars, foldVars>>

\* one iteration of the for loop up to "if let Ok(..) = read_worksheet(..)"
ReadWorksheet ==
    /\ pc = "read"
    /\ ws <= Len(workbook)
    /\ LET r == read_worksheet(workbook[ws].name, workbook[ws].rows, group)
       IN  /\ read' = r
           /\ attempts' = Append(attempts, r)
           /\ pc' = IF r.tag = "Ok" THEN "window"
                    ELSE IF r.tag = "Err" THEN "read"
                    ELSE "panicked"
           /\ ws' = IF r.tag = "Err" THEN ws + 1 ELSE ws
    /\ UNCHANGED <<workbook, group, image_data, result, ret>>
    /\ UNCHANGED <<libVars, periodVars, windowVars, foldVars>>

\* last_n_groups(periods, MAX_PERIODS) and worksheet_data_to_image_data
SelectWindow ==
    /\ pc = "window"
    /\ image_data' = worksheet_data_to_image_data(read.data,
                                                  last_n_groups(read.periods, MAX_PERIODS))
    /\ pc' = "regular"
    /\ UNCHANGED <<workbook, group, ws, read, result, ret, attempts>>
    /\ UNCHANGED <<libVars, periodVars, windowVars, foldVars>>

\* result.push(draw_image(&image_data, "Regulyarnye traty", filter_regular_spendings))
DrawRegular ==
    /\ pc = "regular"
    /\ IF FilterPanics(image_data.charts)
       THEN /\ pc' = "panicked"
            /\ result' = result
       ELSE /\ pc' = "all"
            /\ result' = Append(result, draw_image(image_data, "Regulyarnye traty", ws))
    /\ UNCHANGED <<workbook, group, ws, read, image_data, ret, attempts>>
    /\ UNCHANGED <<libVars, periodVars, windowVars, foldVars>>

\* result.push(draw_image(&image_data, "Vse traty", filter_all_spendings))
DrawAll ==
    /\ pc = "all"
    /\ IF FilterPanics(image_data.charts)
       THEN /\ pc' = "panicked"
            /\ result' = result
            /\ ws' = ws
       ELSE /\ pc' = "read"
            /\ result' = Append(result, draw_image(image_data, "Vse traty", ws))
            /\ ws' = ws + 1
    /\ UNCHANGED <<workbook, group, read, image_data, ret, attempts>>
    /\ UNCHANGED <<libVars, periodVars, windowVars, foldVars>>

IsOk(r) == r.ok
IsErr(r) == ~r.ok

\* the partition of result after the loop, and the value returned
Partition ==
    /\ pc = "read"
    /\ ws > Len(workbook)
    /\ LET results == SelectSeq(result, IsOk)
           errors == SelectSeq(result, IsErr)
       IN  ret' = IF Len(errors) = 0
                  THEN [tag |-> "Ok", paths |-> results, message |-> <<>>]
                  ELSE [tag |-> "Err", paths |-> <<>>,
                        message |-> [i \in 1..Len(errors) |-> errors[i].err]]
    /\ pc' = "done"
    /\ UNCHANGED <<workbook, group, ws, read, image_data, result, attempts>>
    /\ UNCHANGED <<libVars, periodVars, windowVars, foldVars>>

(***************************************************************************)
(* money_manager.rs: read_worksheet and parse_report.                      *)
(***************************************************************************)
\* the body of "for row in range.rows()" of money_manager.rs for one row
lib_FoldRow(acc, columns, row, g) ==
    LET r == read_row(columns, row)
    IN  IF r.tag = "Panic" THEN [acc EXCEPT !.panicked = TRUE]
        ELSE IF r.tag = "Err" THEN acc
        ELSE LET period == lib_period_from_date(g, r.fields.period)
             IN  [acc EXCEPT
                    !.by_category = Accumulate(@, r.fields.category, period,
                                               addition(r.fields))]

RECURSIVE lib_FoldRows(_, _, _, _, _)
lib_FoldRows(acc, columns, rows, g, i) ==
    IF i > Len(rows) \/ acc.panicked THEN acc
    ELSE lib_FoldRows(lib_FoldRow(acc, columns, rows[i], g), columns, rows, g, i + 1)

\* Result<WorksheetData, MyCustomError>: every Err is OtherError
lib_read_worksheet(name, rows, g) ==
    LET cols == ResolveColumns(name, rows)
    IN  IF ~cols.ok THEN [tag |-> "Err", error |-> "OtherError", data |-> EmptyLedger]
        ELSE LET acc == lib_FoldRows(FoldInit, cols.columns, rows, g, 1)
             IN  IF acc.panicked
                 THEN [tag |-> "Panic", error |-> "", data |-> EmptyLedger]
                 ELSE [tag |-> "Ok", error |-> "", data |-> acc.by_category]

LibNoRet == [tag |-> "None", data |-> <<>>, error |-> ""]

LibInit ==
    /\ lib_pc = "open"
    /\ lib_ws = 1
    /\ lib_data = <<>>
    /\ lib_ret = LibNoRet
    /\ lib_periods = <<>>
    /\ lib_shown = <<>>

\* let mut workbook: Xlsx<_> = open_workbook(file)?;
LibOpenWorkbook ==
    /\ lib_pc = "open"
    /\ \E opened \in BOOLEAN :
          IF opened
          THEN /\ lib_pc' = "collect"
               /\ lib_ret' = lib_ret
          ELSE /\ lib_pc' = "done"
               /\ lib_ret' = [tag |-> "Err", data |-> <<>>, error |-> "OpenError"]
    /\ UNCHANGED <<lib_ws, lib_data, lib_periods, lib_shown>>
    /\ UNCHANGED <<mainVars, periodVars, windowVars, foldVars>>

\* One item of .map(read_worksheet).collect::<Result<Vec<_>, _>>(): collect
\* takes items until the first Err and returns that Err.
LibReadWorksheet ==
    /\ lib_pc = "collect"
    /\ lib_ws <= Len(workbook)
    /\ LET r == lib_read_worksheet(workbook[lib_ws].name, workbook[lib_ws].rows, group)
       IN  /\ lib_pc' = IF r.tag = "Ok" THEN "collect"
                        ELSE IF r.tag = "Err" THEN "done"
                        ELSE "panicked"
           /\ lib_data' = IF r.tag = "Ok" THEN Append(lib_data, r.data) ELSE lib_data
           /\ lib_ws' = IF r.tag = "Ok" THEN lib_ws + 1 ELSE lib_ws
           /\ lib_ret' = IF r.tag = "Err"
                         THEN [tag |-> "Err", data |-> <<>>, error |-> r.error]
                         ELSE lib_ret
    /\ UNCHANGED <<lib_periods, lib_shown>>
    /\ UNCHANGED <<mainVars, periodVars, windowVars, foldVars>>

\* the iterator is exhausted: collect returns Ok(vec)
LibCollect ==
    /\ lib_pc = "collect"
    /\ lib_ws > Len(workbook)
    /\ lib_pc' = "done"
    /\ lib_ret' = [tag |-> "Ok", data |-> lib_data, error |-> ""]
    /\ UNCHANGED <<lib_ws, lib_data, lib_periods, lib_shown>>
    /\ UNCHANGED <<mainVars, periodVars, windowVars, foldVars>>

(***************************************************************************)
(* money_manager.rs: worksheet_data_to_periods, y, is_spending_category,   *)
(* plot and draw.                                                          *)
(***************************************************************************)
\* the periods of every category of every worksheet, in ascending order
lib_worksheet_data_to_periods(data) ==
    SortPeriods(UNION {UNION {DOMAIN data[k][cat] : cat \in DOMAIN data[k]} :
                          k \in 1..Len(data)})

\* periods.iter().map(|p| by_cat.get(p).unwrap_or(&0.0).clone()).collect()
lib_y(by_cat, periods) ==
    [i \in 1..Len(periods) |->
        IF periods[i] \in DOMAIN by_cat THEN by_cat[periods[i]] ELSE 0]

\* median(y_values) > 0.0
lib_is_spending_category(values) == median_x2(values) > 0

\* plot evaluates is_spending_category, and so median, on the series of
\* every category of the worksheet
lib_PlotPanics(worksheet_data, periods) ==
    \E cat \in DOMAIN worksheet_data : MedianPanics(lib_y(worksheet_data[cat], periods))

\* The Plot that plot returns: one trace per spending category, then the
\* trace of y_total, the positional sum of those traces.
lib_plot(title, worksheet_data, periods) ==
    LET cats == SortedCategories(worksheet_data)
        spending(cat) == lib_is_spending_category(lib_y(worksheet_data[cat], periods))
        shown == SelectSeq(cats, spending)
        traces == [i \in 1..Len(shown) |->
                      [name |-> shown[i],
                       y_values |-> lib_y(worksheet_data[shown[i]], periods),
                       line |-> "Solid"]]
        y_total == [i \in 1..Len(periods) |-> SumAt(traces, i)]
    IN  [title |-> title, x_values |-> periods,
         charts |-> Append(traces, [name |-> "Vsego", y_values |-> y_total,
                                    line |-> "Solid"])]

\* draw(data) with the value parse_report returned:
\* let periods = last_n_groups(worksheet_data_to_periods(&data), MAX_PERIODS)
LibDraw ==
    /\ lib_pc = "done"
    /\ lib_ret.tag = "Ok"
    /\ lib_periods' = last_n_groups(lib_worksheet_data_to_periods(lib_ret.data),
                                    MAX_PERIODS)
    /\ lib_pc' = "plot"
    /\ UNCHANGED <<lib_ws, lib_data, lib_ret, lib_shown>>
    /\ UNCHANGED <<mainVars, periodVars, windowVars, foldVars>>

\* one iteration of "for worksheet_data in data": plot(..) and plot.show()
LibPlot ==
    /\ lib_pc = "plot"
    /\ Len(lib_shown) < Len(lib_ret.data)
    /\ LET worksheet_data == lib_ret.data[Len(lib_shown) + 1]
       IN  IF lib_PlotPanics(worksheet_data, lib_periods)
           THEN /\ lib_pc' = "panicked"
                /\ lib_shown' = lib_shown
           ELSE /\ lib_pc' = lib_pc
                /\ lib_shown' = Append(lib_shown,
                                       lib_plot("Vse traty", worksheet_data, lib_periods))
    /\ UNCHANGED <<lib_ws, lib_data, lib_ret, lib_periods>>
    /\ UNCHANGED <<mainVars, periodVars, windowVars, foldVars>>

\* the loop of draw is over
LibDrawReturn ==
    /\ lib_pc = "plot"
    /\ Len(lib_shown) = Len(lib_ret.data)
    /\ lib_pc' = "drawn"
    /\ UNCHANGED <<lib_ws, lib_data, lib_ret, lib_periods, lib_shown>>
    /\ UNCHANGED <<mainVars, periodVars, windowVars, foldVars>>

(***************************************************************************)
(* Idle values of the variables a specification does not use.              *)
(***************************************************************************)
InputIdle == workbook = <<>> /\ group = "month"

MainIdle ==
    /\ pc = "idle"
    /\ ws = 1
    /\ read = NoRead
    /\ image_data = NoImage
    /\ result = <<>>
    /\ ret = NoRet
    /\ attempts = <<>>

LibIdle ==
    /\ lib_pc = "idle"
    /\ lib_ws = 1
    /\ lib_data = <<>>
    /\ lib_ret = LibNoRet
    /\ lib_periods = <<>>
    /\ lib_shown = <<>>
PeriodIdle == date = NoDate /\ key = None /\ later = NoDate /\ later_key = None
WindowIdle == universe = <<>> /\ size = 0 /\ window = None
FoldIdle == transactions = <<>> /\ order = <<>> /\ folded = None

(***************************************************************************)
(* Spec: one run of the binary over a workbook.                            *)
(***************************************************************************)
Init ==
    /\ workbook \in Workbooks
    /\ group \in Groups
    /\ MainInit
    /\ LibIdle /\ PeriodIdle /\ WindowIdle /\ FoldIdle

Next ==
    \/ OpenWorkbook
    \/ ReadWorksheet
    \/ SelectWindow
    \/ DrawRegular
    \/ DrawAll
    \/ Partition

Spec == Init /\ [][Next]_vars

(***************************************************************************)
(* SpecLib: money_manager::parse_report, then draw of the value returned.   *)
(***************************************************************************)
LibWorkbooks == {<<sh>> : sh \in RowSheets} \cup RunBooks

InitLib ==
    /\ workbook \in LibWorkbooks
    /\ group \in Groups
    /\ LibInit
    /\ MainIdle /\ PeriodIdle /\ WindowIdle /\ FoldIdle

NextLib ==
    \/ LibOpenWorkbook
    \/ LibReadWorksheet
    \/ LibCollect
    \/ LibDraw
    \/ LibPlot
    \/ LibDrawReturn

SpecLib == InitLib /\ [][NextLib]_vars

(***************************************************************************)
(* SpecPeriod: the period keys of one calendar date.                       *)
(***************************************************************************)
Years == {0, 999, 1000, 2023, 2024, 9999}

Dates ==
    {d \in [day : 1..31, month : 1..12, year : Years] : ValidDate(d)}

InitPeriod ==
    /\ date \in Dates
    /\ key = None
    /\ later = NoDate
    /\ later_key = None
    /\ InputIdle /\ MainIdle /\ LibIdle /\ WindowIdle /\ FoldIdle

\* group_by(fields.period) of either file, for one granularity
DerivePeriod ==
    /\ ~key.some
    /\ \E g \in Groups :
          key' = Some([group |-> g,
                       main |-> period_from_date(g, date),
                       lib |-> lib_period_from_date(g, date)])
    /\ UNCHANGED <<date, later, later_key, mainVars, libVars, windowVars, foldVars>>

NextPeriod == DerivePeriod

SpecPeriod == InitPeriod /\ [][NextPeriod]_vars

(***************************************************************************)
(* SpecOrder: the period keys of two calendar dates, the first not after   *)
(* the second.                                                             *)
(***************************************************************************)
OrderYears == {0, 9, 10, 99, 100, 999, 1000, 2023, 2024, 9999}

\* the first and the last day of every month of the years
OrderDates ==
    {d \in [day : {1, 28, 29, 30, 31}, month : 1..12, year : OrderYears] :
        d.day \in {1, DaysInMonth(d.year, d.month)}}

\* d1 <= d2 of NaiveDate
DateLeq(d1, d2) ==
    \/ d1.year < d2.year
    \/ d1.year = d2.year /\ d1.month < d2.month
    \/ d1.year = d2.year /\ d1.month = d2.month /\ d1.day <= d2.day

InitOrder ==
    /\ date \in OrderDates
    /\ later \in {d \in OrderDates : DateLeq(date, d)}
    /\ key = None
    /\ later_key = None
    /\ InputIdle /\ MainIdle /\ LibIdle /\ WindowIdle /\ FoldIdle

\* group_by(fields.period) of either file for both dates, for one granularity
DeriveBoth ==
    /\ ~key.some
    /\ \E g \in Groups :
          /\ key' = Some([group |-> g,
                          main |-> period_from_date(g, date),
                          lib |-> lib_period_from_date(g, date)])
          /\ later_key' = Some([group |-> g,
                                main |-> period_from_date(g, later),
                                lib |-> lib_period_from_date(g, later)])
    /\ UNCHANGED <<date, later, mainVars, libVars, windowVars, foldVars>>

SpecOrder == InitOrder /\ [][DeriveBoth]_vars

(***************************************************************************)
(* SpecWindow: last_n_groups on a sorted universe of distinct periods.     *)
(***************************************************************************)
MonthKey(m) == by_month([day |-> 1, month |-> m, year |-> 2023])

Universes == {SortPeriods({MonthKey(m) : m \in M}) : M \in SUBSET (1..MaxUniverse)}

InitWindow ==
    /\ universe \in Universes
    /\ size \in 0..MaxSize
    /\ window = None
    /\ InputIdle /\ MainIdle /\ LibIdle /\ PeriodIdle /\ FoldIdle

ApplyWindow ==
    /\ ~window.some
    /\ window' = Some(last_n_groups(universe, size))
    /\ UNCHANGED <<universe, size, mainVars, libVars, periodVars, foldVars>>

NextWindow == ApplyWindow

SpecWindow == InitWindow /\ [][NextWindow]_vars

(***************************************************************************)
(* SpecFold: the Ledger Builder fold of a sequence of normalized           *)
(* transactions with f64 amounts, as given and in a permuted order.        *)
(***************************************************************************)
Tx(d, c, t, v) == [period |-> d, category |-> c, tx_type |-> t, value |-> v]

Day(d, m) == [day |-> d, month |-> m, year |-> 2023]

\* amounts with kopecks (0.1, 0.2) and whole amounts
FoldTxs ==
    {Tx(Day(1, 1), "Food", "Outcome", f64_0_1),
     Tx(Day(15, 1), "Food", "Outcome", f64_0_2),
     Tx(Day(15, 1), "Food", "Outcome", f64_of_int(300)),
     Tx(Day(1, 2), "Food", "Income", f64_of_int(50)),
     Tx(Day(31, 3), "Rent", "Outcome", f64_of_int(100))}

Orders(n) ==
    {p \in [1..n -> 1..n] : \A i, j \in 1..n : p[i] = p[j] => i = j}

Permute(s, p) == [i \in 1..Len(s) |-> s[p[i]]]

InitFold ==
    /\ transactions \in SeqsUpTo(FoldTxs, MaxTx)
    /\ order \in Orders(Len(transactions))
    /\ group \in Groups
    /\ folded = None
    /\ workbook = <<>>
    /\ MainIdle /\ LibIdle /\ PeriodIdle /\ WindowIdle

\* the fold of either file over transactions and over their permutation
FoldLedgers ==
    /\ ~folded.some
    /\ LET permuted == Permute(transactions, order)
       IN  folded' = Some([given |-> FoldFields(EmptyLedger, transactions, group, 1),
                           permuted |-> FoldFields(EmptyLedger, permuted, group, 1),
                           lib_given |-> lib_FoldFields(EmptyLedger, transactions, group, 1),
                           lib_permuted |-> lib_FoldFields(EmptyLedger, permuted, group, 1)])
    /\ UNCHANGED <<transactions, order, mainVars, libVars, periodVars, windowVars>>

SpecFold == InitFold /\ [][FoldLedgers]_vars

(***************************************************************************)
(* Properties.                                                             *)
(***************************************************************************)
\* the period keys "2023-01", "2023-02", "2023-q2" as code sequences
Key_2023_01 == <<50, 48, 50, 51, 45, 48, 49>>
Key_2023_02 == <<50, 48, 50, 51, 45, 48, 50>>

\* the normalized transactions of the rows of a worksheet: read_row per row
RowResults(sheet) ==
    LET columns == ResolveColumns(sheet.name, sheet.rows).columns
    IN  [i \in 1..Len(sheet.rows) |-> read_row(columns, sheet.rows[i])]

\* sum of the amounts of the transactions of kind tx_type among the rows of
\* the set bucket
BucketSum(tx, bucket, tx_type) ==
    SumSeq([i \in 1..Len(tx) |->
              IF i \in bucket /\ tx[i].fields.tx_type = tx_type
              THEN tx[i].fields.value ELSE 0])

\* C1: the ledger read_worksheet returns holds, for every (category, period)
\* bucket, the sum of the Outcome amounts minus the sum of the Income amounts
\* of the normalized transactions that fall in the bucket; a key exists only
\* if a transaction fell in it, and every transaction falls in a key.
C1_LedgerIsSignedSum ==
    pc = "window" =>
        LET ledger == read.data
            tx == RowResults(workbook[ws])
            normalized == {i \in 1..Len(tx) : tx[i].tag = "Ok"}
            periodOf == [i \in normalized |-> period_from_date(group, tx[i].fields.period)]
            bucket(c, p) == {i \in normalized : tx[i].fields.category = c /\ periodOf[i] = p}
        IN  /\ \A c \in DOMAIN ledger : \A p \in DOMAIN ledger[c] :
                  /\ bucket(c, p) # {}
                  /\ ledger[c][p] = BucketSum(tx, bucket(c, p), "Outcome")
                                    - BucketSum(tx, bucket(c, p), "Income")
            /\ \A c \in DOMAIN ledger : DOMAIN ledger[c] # {}
            /\ \A i \in normalized :
                  /\ tx[i].fields.category \in DOMAIN ledger
                  /\ periodOf[i] \in DOMAIN ledger[tx[i].fields.category]

\* the scenario of the specification: 300 and 100 Outcome in 2023-01 and 50
\* Income in 2023-02 of Food, by month
C1_Witness ==
    /\ pc = "window"
    /\ group = "month"
    /\ workbook = <<Sheet(SheetNames[1], GoodHeader, <<Row1, Row2, Row3>>)>>
    /\ DOMAIN read.data = {"Food"}
    /\ DOMAIN read.data["Food"] = {Key_2023_01, Key_2023_02}
    /\ read.data["Food"][Key_2023_01] = 400
    /\ read.data["Food"][Key_2023_02] = 0 - 50

Min(a, b) == IF a < b THEN a ELSE b

\* C2: last_n_groups of an ascending universe of distinct periods and a size
\* n is, in ascending order, the last n elements of the universe without its
\* final element: it never holds the maximum of the universe, its length is
\* min(n, len - 1) for a non-empty universe and 0 for the empty one, and for
\* 2 <= len <= n + 1 it is the universe minus its last element.
C2_WindowDropsLastKeepsN ==
    window.some =>
        LET w == window.v
            len == Len(universe)
        IN  /\ Len(w) = IF len = 0 THEN 0 ELSE Min(size, len - 1)
            /\ \A i \in 1..Len(w) : w[i] = universe[len - 1 - Len(w) + i]
            /\ \A i \in 1..(Len(w) - 1) : LexLess(w[i], w[i + 1])
            /\ len >= 1 => universe[len] \notin Range(w)
            /\ (2 <= len /\ len <= size + 1) => w = SubSeq(universe, 1, len - 1)

\* a universe of five months cut to the three before the last one
C2_Witness ==
    /\ window.some
    /\ size = 3
    /\ universe = <<MonthKey(1), MonthKey(2), MonthKey(3), MonthKey(4), MonthKey(5)>>
    /\ window.v = <<MonthKey(2), MonthKey(3), MonthKey(4)>>

\* C3: worksheet_data_to_image_data gives every category of the ledger one
\* series, as long as the window, whose i-th value is the ledger value of the
\* category at window[i] when that period is a key of the category's map and
\* 0 otherwise, in the order of the window.
C3_SeriesAlignedZeroFilled ==
    pc \in {"regular", "all"} =>
        LET ledger == read.data
            win == image_data.x_values
            charts == image_data.charts
        IN  /\ Len(charts) = Cardinality(DOMAIN ledger)
            /\ \A c \in DOMAIN ledger :
                  Cardinality({i \in 1..Len(charts) : charts[i].name = c}) = 1
            /\ \A i \in 1..Len(charts) :
                  /\ charts[i].name \in DOMAIN ledger
                  /\ Len(charts[i].y_values) = Len(win)
                  /\ \A j \in 1..Len(win) :
                        charts[i].y_values[j] =
                            IF win[j] \in DOMAIN ledger[charts[i].name]
                            THEN ledger[charts[i].name][win[j]]
                            ELSE 0

\* a series with a zero for a period its category has no key for, after a
\* value of the ledger
C3_Witness ==
    /\ pc = "regular"
    /\ \E i \in 1..Len(image_data.charts) :
          \E j, k \in 1..Len(image_data.x_values) :
             /\ j < k
             /\ image_data.x_values[j] \in DOMAIN read.data[image_data.charts[i].name]
             /\ image_data.charts[i].y_values[j] # 0
             /\ image_data.x_values[k] \notin DOMAIN read.data[image_data.charts[i].name]
             /\ image_data.charts[i].y_values[k] = 0

\* the k-th smallest value of a non-empty v
KthSmallest(v, k) ==
    CHOOSE x \in Range(v) :
        /\ Cardinality({i \in 1..Len(v) : v[i] < x}) < k
        /\ k <= Cardinality({i \in 1..Len(v) : v[i] <= x})

\* twice the conventional median of a non-empty v
TwiceMedian(v) ==
    IF Len(v) % 2 = 1 THEN 2 * KthSmallest(v, (Len(v) + 1) \div 2)
    ELSE KthSmallest(v, Len(v) \div 2) + KthSmallest(v, (Len(v) \div 2) + 1)

\* median(v) > 0
IsSpending(v) == TwiceMedian(v) > 0

\* median(v) > 0 and mean(v) < 2 * median(v) and median(v) < 2 * mean(v), the
\* mean being SumSeq(v) / Len(v)
IsRegular(v) ==
    /\ TwiceMedian(v) > 0
    /\ SumSeq(v) < Len(v) * TwiceMedian(v)
    /\ Len(v) * TwiceMedian(v) < 4 * SumSeq(v)

\* the materialized series cd is one of the category series of chart r (the
\* total is the last series)
Included(cd, r) == \E j \in 1..(Len(r.charts) - 1) : r.charts[j] = cd

\* the charts of the worksheet image_data belongs to are the last of result
RegularDrawn == pc = "all"
BothDrawn == pc \in {"read", "window", "done"} /\ Len(result) >= 2

\* C4: a category of the worksheet is in the all-spendings chart iff the
\* median of its series is positive, and in the regular-spendings chart iff
\* moreover mean < 2 * median and median < 2 * mean; so every category of the
\* regular chart is in the all-spendings chart.
C4_ChartsHoldTheClassifiedCategories ==
    /\ RegularDrawn =>
          LET regular == result[Len(result)]
          IN  /\ regular.title = "Regulyarnye traty"
              /\ \A i \in 1..Len(image_data.charts) :
                    Included(image_data.charts[i], regular)
                        <=> IsRegular(image_data.charts[i].y_values)
              /\ \A j \in 1..(Len(regular.charts) - 1) :
                    \E i \in 1..Len(image_data.charts) :
                        image_data.charts[i] = regular.charts[j]
    /\ BothDrawn =>
          LET regular == result[Len(result) - 1]
              all == result[Len(result)]
          IN  /\ all.title = "Vse traty"
              /\ \A i \in 1..Len(image_data.charts) :
                    Included(image_data.charts[i], all)
                        <=> IsSpending(image_data.charts[i].y_values)
              /\ \A j \in 1..(Len(all.charts) - 1) :
                    \E i \in 1..Len(image_data.charts) :
                        image_data.charts[i] = all.charts[j]
              /\ \A i \in 1..Len(image_data.charts) :
                    /\ Included(image_data.charts[i], regular)
                          <=> IsRegular(image_data.charts[i].y_values)
                    /\ IsRegular(image_data.charts[i].y_values)
                          => IsSpending(image_data.charts[i].y_values)
                    /\ Included(image_data.charts[i], regular)
                          => Included(image_data.charts[i], all)

\* the scenario of the specification: [1000, 1000, 1000, 12000] is drawn in
\* the all-spendings chart and not in the regular one
C4_Witness ==
    /\ pc = "done"
    /\ Len(result) = 2
    /\ \E i \in 1..Len(image_data.charts) :
          /\ image_data.charts[i].y_values = <<1000, 1000, 1000, 12000>>
          /\ Included(image_data.charts[i], result[2])
          /\ ~Included(image_data.charts[i], result[1])

\* C5: every drawn chart ends with exactly one total series, as long as the
\* window, whose i-th value is the sum of the i-th values of the category
\* series of that chart, also when the chart has no category series.
C5_TotalIsPositionalSum ==
    /\ \A k \in 1..Len(result) :
          LET r == result[k]
              n == Len(r.charts)
          IN  /\ n >= 1
              /\ r.charts[n].name = "Vsego"
              /\ r.charts[n].line = "LongDashDot"
              /\ \A j \in 1..(n - 1) :
                    r.charts[j].name # "Vsego" /\ r.charts[j].line = "Solid"
              /\ Len(r.charts[n].y_values) = Len(r.x_values)
              /\ \A i \in 1..Len(r.x_values) :
                    r.charts[n].y_values[i]
                        = SumSeq([j \in 1..(n - 1) |-> r.charts[j].y_values[i]])
    /\ RegularDrawn => result[Len(result)].x_values = image_data.x_values
    /\ BothDrawn => /\ result[Len(result)].x_values = image_data.x_values
                    /\ result[Len(result) - 1].x_values = image_data.x_values

\* one worksheet whose regular chart has one category (the other is filtered
\* out) and whose all-spendings chart has both, each with its total
C5_Witness ==
    /\ pc = "done"
    /\ Len(result) = 2
    /\ Len(result[1].charts) = 2
    /\ Len(result[2].charts) = 3
    /\ result[1].charts[2].y_values = result[1].charts[1].y_values
    /\ \E i \in 1..Len(result[2].x_values) :
          /\ result[2].charts[1].y_values[i] # 0
          /\ result[2].charts[2].y_values[i] # 0
          /\ result[2].charts[3].y_values[i]
                = result[2].charts[1].y_values[i] + result[2].charts[2].y_values[i]

\* C6: the quarter key of a calendar date is "{year:04}-q{quarter}" with
\* quarter = floor((month - 1) / 3) + 1, a number of 1..4.
C6_QuarterKey ==
    (key.some /\ key.v.group = "quarter") =>
        LET quarter == ((date.month - 1) \div 3) + 1
        IN  /\ quarter \in 1..4
            /\ key.v.main = FmtInt(date.year, 4) \o <<45, 113, 48 + quarter>>

\* a cell can be read as the field of its column
DateReadable(cell) == cell.t = "String" /\ parse_from_str(cell.s).some
CategoryReadable(cell) == cell.t = "String"
TypeReadable(cell) == cell.t = "String" /\ cell.s \in {income, outcome}
ValueReadable(cell) == cell.t = "Float"

\* C7: with the four columns resolved, every row with an unreadable date,
\* category, transaction-type or value cell is dropped without an error or an
\* abort of the run, and the ledger is the ledger of the remaining rows.
C7_UnreadableRowsAreDropped ==
    (pc = "window" \/ (pc = "panicked" /\ read.tag = "Panic")) =>
        LET sheet == workbook[ws]
            columns == ResolveColumns(sheet.name, sheet.rows).columns
            readable(row) == /\ DateReadable(CellAt(row, columns.period))
                             /\ CategoryReadable(CellAt(row, columns.category))
                             /\ TypeReadable(CellAt(row, columns.tx_type))
                             /\ ValueReadable(CellAt(row, columns.value))
            remaining == SelectSeq(sheet.rows, readable)
        IN  /\ read.tag = "Ok"
            /\ read.data = FoldRows(FoldInit, columns, remaining, group, 1).by_category

\* label is the content of some cell of the row
LabelIn(row, label) == \E i \in 1..Len(row) : row[i] = Str(label)

\* C8: header resolution fails the worksheet iff the sheet has no rows or one
\* of the four labels is absent from its first row; otherwise every column
\* position is the index of its label, in whichever column the label is.
C8_HeaderResolvesIffAllLabelsPresent ==
    \A k \in 1..Len(attempts) :
        LET rows == workbook[k].rows
            missing == \/ rows = <<>>
                       \/ \E label \in HeaderLabels : ~LabelIn(rows[1], label)
            cols == ResolveColumns(workbook[k].name, rows)
        IN  /\ (attempts[k].tag = "Err") <=> missing
            /\ ~missing =>
                  /\ cols.ok
                  /\ CellAt(rows[1], cols.columns.period) = Str(period_str)
                  /\ CellAt(rows[1], cols.columns.category) = Str(category_str)
                  /\ CellAt(rows[1], cols.columns.tx_type) = Str(tx_type_str)
                  /\ CellAt(rows[1], cols.columns.value) = Str(value_str)

\* C9: when parse_report returns after opening the workbook, every worksheet
\* has been attempted, whatever failed before it, and the ledger of every
\* worksheet that parses is in the output.
C9_EveryWorksheetAttempted ==
    (lib_pc = "done" /\ lib_ret.error # "OpenError") =>
        /\ lib_ret.tag = "Ok" \/ lib_ws = Len(workbook)
        /\ \A k \in 1..Len(workbook) :
              LET r == lib_read_worksheet(workbook[k].name, workbook[k].rows, group)
              IN  r.tag = "Ok" => \E j \in 1..Len(lib_ret.data) : lib_ret.data[j] = r.data

\* C10: after the worksheet loop the caller gets either every produced chart,
\* and then no worksheet failed, or an error message with the description of
\* every worksheet-level failure.
C10_FailuresAreReported ==
    (pc = "done" /\ ret.message # <<OpenErr>>) =>
        LET failed == {k \in 1..Len(attempts) : attempts[k].tag = "Err"}
        IN  IF failed = {}
            THEN ret.tag = "Ok" /\ ret.paths = result
            ELSE /\ ret.tag = "Err"
                 /\ \A k \in failed : attempts[k].err \in Range(ret.message)

RECURSIVE MagnitudeSum(_)
\* the exact sum of the magnitudes of a sequence of f64 values
MagnitudeSum(values) ==
    IF values = <<>> THEN {}
    ELSE BitAdd(values[1].bits, MagnitudeSum(Tail(values)))

\* every amount is a whole number and their absolute values sum to at most
\* 2^53: every partial sum, in any order, is then a binary64 value
ExactlySummable(values) ==
    /\ \A i \in 1..Len(values) : \A b \in values[i].bits : b >= 0
    /\ LET total == MagnitudeSum(values)
       IN  total = {} \/ SetMax(total) <= 52 \/ total = {53}

\* the ledgers a and b of txs, whose period keys are keys[i], have the same
\* categories and the same periods per category, and the same value in every
\* bucket whose amounts are exactly summable
SameLedgerUpToRounding(a, b, txs, keys) ==
    /\ DOMAIN a = DOMAIN b
    /\ \A c \in DOMAIN a :
          /\ DOMAIN a[c] = DOMAIN b[c]
          /\ \A p \in DOMAIN a[c] :
                LET in_bucket(i) == txs[i].category = c /\ keys[i] = p
                    amounts == [i \in 1..Len(txs) |->
                                   IF in_bucket(i) THEN txs[i].value ELSE f64_zero]
                IN  ExactlySummable(amounts) => a[c][p] = b[c][p]

\* C11 (as stated): folding a permutation of a sequence of normalized
\* transactions gives the ledger of the sequence: the same categories, the
\* same periods per category and the same value in every bucket.
C11_FoldIsOrderIndependent ==
    folded.some =>
        /\ folded.v.permuted = folded.v.given
        /\ folded.v.lib_permuted = folded.v.lib_given

\* C11 (amended): folding a permutation of a sequence of normalized
\* transactions gives a ledger with the same categories and the same periods
\* per category, and with the same value in every bucket whose amounts are
\* whole numbers with absolute values summing to at most 2^53.
C11_FoldIsOrderIndependentWhenExact ==
    folded.some =>
        /\ SameLedgerUpToRounding(folded.v.given, folded.v.permuted, transactions,
              [i \in 1..Len(transactions) |->
                  period_from_date(group, transactions[i].period)])
        /\ SameLedgerUpToRounding(folded.v.lib_given, folded.v.lib_permuted, transactions,
              [i \in 1..Len(transactions) |->
                  lib_period_from_date(group, transactions[i].period)])

\* 300 Outcome, 50 Income of Food and 100 Outcome of Rent in 2023, folded by
\* year in that order and in the reverse order: Food holds 250 either way
C11_Witness ==
    /\ folded.some
    /\ group = "year"
    /\ transactions = <<Tx(Day(15, 1), "Food", "Outcome", f64_of_int(300)),
                        Tx(Day(1, 2), "Food", "Income", f64_of_int(50)),
                        Tx(Day(31, 3), "Rent", "Outcome", f64_of_int(100))>>
    /\ order = <<3, 2, 1>>
    /\ folded.v.given["Food"][by_year(Day(1, 1))] = f64_of_int(250)
    /\ folded.v.permuted = folded.v.given
    /\ folded.v.lib_permuted = folded.v.lib_given

\* C12: for every granularity and all valid calendar dates d1 <= d2 of the
\* years 0..9999, in one year or not, the period key of d1 is at most the
\* period key of d2 in the byte-wise order of Strings, in either file.
C12_KeysAreChronological ==
    (key.some /\ later_key.some /\ DateLeq(date, later)) =>
        /\ LexLeq(key.v.main, later_key.v.main)
        /\ LexLeq(key.v.lib, later_key.v.lib)

\* the last day of the year 999 and the first of the year 1000, by month:
\* "0999-12" is below "1000-01"
C12_Witness ==
    /\ key.some /\ later_key.some
    /\ key.v.group = "month"
    /\ date = [day |-> 31, month |-> 12, year |-> 999]
    /\ later = [day |-> 1, month |-> 1, year |-> 1000]
    /\ key.v.main = <<48, 57, 57, 57, 45, 49, 50>>
    /\ later_key.v.main = <<49, 48, 48, 48, 45, 48, 49>>
    /\ LexLess(key.v.main, later_key.v.main)

\* C13: an empty window is a valid case: whenever a filter is about to
\* evaluate its predicate on the series of a worksheet, no series is empty,
\* and no worksheet that was read is left unfinished by a panic of median;
\* so a worksheet with a category and fewer than 2 periods is processed to
\* completion.
C13_EmptyWindowIsHandled ==
    /\ pc \in {"regular", "all"} =>
          \A i \in 1..Len(image_data.charts) : Len(image_data.charts[i].y_values) > 0
    /\ ~(pc = "panicked" /\ read.tag = "Ok")

\* the window of worksheet k of draw's data when no other worksheet has a
\* period: the window derived from the periods of its own ledger
OwnWindow(k) ==
    last_n_groups(lib_worksheet_data_to_periods(<<lib_ret.data[k]>>), MAX_PERIODS)

\* draw has returned or was aborted by a panic of plot
DrawEnded == lib_pc = "drawn" \/ (lib_pc = "panicked" /\ lib_ret.tag = "Ok")

\* C14: worksheets do not interfere.  The plot of a worksheet W is the same
\* in any two runs that agree on the rows of W iff in every run it is the
\* plot of the run in which the other worksheets have no periods; so: every
\* plot shown for a worksheet has the window derived from the periods of
\* that worksheet's own ledger and the traces and total of that window, and
\* when draw ends a plot was shown for every worksheet that gets one alone.
C14_WorksheetsDoNotInterfere ==
    /\ \A k \in 1..Len(lib_shown) :
          /\ lib_shown[k].x_values = OwnWindow(k)
          /\ ~lib_PlotPanics(lib_ret.data[k], OwnWindow(k))
          /\ lib_shown[k] = lib_plot("Vse traty", lib_ret.data[k], OwnWindow(k))
    /\ DrawEnded =>
          \A k \in 1..Len(lib_ret.data) :
              ~lib_PlotPanics(lib_ret.data[k], OwnWindow(k)) => k <= Len(lib_shown)

====
